---- MODULE Spec2Model ----
(***************************************************************************)
(* Model of the three workflow scripts of smpain_HR:                       *)
(*   scripts/auto-detect-progress.py  (AutoProgressDetector)               *)
(*   scripts/sync-progress.py         (ProgressSync)                       *)
(*   scripts/auto-date-updater.py     (update_markdown_date_fields)        *)
(*                                                                         *)
(* Text is modelled as a sequence of tokens.  Every token stands for a     *)
(* fixed, non-empty piece of text; no token's text is a prefix of another  *)
(* token's text and no keyword or checkbox marker straddles two tokens, so *)
(* the regular expressions of the scripts act on token boundaries:         *)
(*   "BOX"    "- [ ] "                 "XBOX"  "- [x] "                    *)
(*   "NL"     "\n"                     "INPROG" the in-progress mark       *)
(*   "AUTO"   " ✅ (<today> 자동 감지)"    (stamp of the detector)             *)
(*   "DONE"   " ✅ (<today> 완료)"        (stamp of the sync script)           *)
(*   "Excel"  "Excel API"              "scroll" "scroll UI"                *)
(*   "test"   "unit test"              "misc"   "docs"                     *)
(*   "Long50" a 50-character text that holds the word Excel                *)
(*   "Long30" "Excel export for leave reports" (30 characters)             *)
(*   "a", "b" one letter each                                              *)
(***************************************************************************)
EXTENDS Integers, Sequences, FiniteSets, TLC

VARIABLES
    plans,        \* plan file name -> content (token sequence)
    todoExists,   \* does todo-development.md exist
    todo,         \* content of todo-development.md
    trackedHash,  \* tracked source path -> content hash, 0 = no such file
    testMtime,    \* test result file -> mtime, -1 = no such file
    implRecent,   \* file-name pattern -> name of the first matching file
                  \* modified in the last 24 hours, "" = none
    probe,        \* what ss and ps answer
    now,          \* the clock
    stateFile,    \* .progress-state.json
    reportFile,   \* .detection-report.md
    syncLog,      \* .sync-log.txt
    det,          \* detector invocation -> its local state
    syn,          \* sync invocation -> its local state
    hist,         \* history: what each file looked like before, who wrote last
    dateFile,     \* the file handed to the date updater
    today,        \* the digits of today's year
    upd           \* the date updater's local state

vars == <<plans, todoExists, todo, trackedHash, testMtime, implRecent, probe,
          now, stateFile, reportFile, syncLog, det, syn, hist, dateFile,
          today, upd>>

----------------------------------------------------------------------------
(* Text helpers: Python's str slicing and the re module on token sequences *)

\* Number of characters of a token's text.
Width(t) ==
    CASE t = "BOX" -> 6 [] t = "XBOX" -> 6 [] t = "NL" -> 1
      [] t = "INPROG" -> 1 [] t = "AUTO" -> 21 [] t = "DONE" -> 18
      [] t = "Excel" -> 9 [] t = "scroll" -> 9 [] t = "test" -> 9
      [] t = "misc" -> 4 [] t = "Long50" -> 50 [] t = "Long30" -> 30
      [] OTHER -> 1

RECURSIVE TextWidth(_)
TextWidth(s) == IF s = <<>> THEN 0 ELSE Width(Head(s)) + TextWidth(Tail(s))

\* s[:n] for a text whose n-th character ends a token (or that is shorter).
RECURSIVE Slice(_, _)
Slice(s, n) ==
    IF s = <<>> \/ Width(Head(s)) > n THEN <<>>
    ELSE <<Head(s)>> \o Slice(Tail(s), n - Width(Head(s)))

\* The slice falls on a token boundary (what Slice assumes).
SliceExact(s, n) ==
    TextWidth(Slice(s, n)) = (IF TextWidth(s) < n THEN TextWidth(s) ELSE n)

\* Index of the next "\n" at or after i, Len(s)+1 when there is none.
RECURSIVE LineEnd(_, _)
LineEnd(s, i) ==
    IF i > Len(s) \/ s[i] = "NL" THEN i ELSE LineEnd(s, i + 1)

\* Does p occur in s at index i.
StartsWithAt(s, i, p) ==
    /\ i + Len(p) - 1 <= Len(s)
    /\ \A k \in 1..Len(p) : s[i + k - 1] = p[k]

\* Does p occur in s[i..j] as a contiguous piece.
Contains(s, i, j, p) ==
    \E k \in i..(j - Len(p) + 1) : StartsWithAt(s, k, p)

\* re.findall(r'<box>(.+?)(?:\n|$)', s): the text after each box up to the
\* end of its line; the line break is consumed by the match.
RECURSIVE FindBoxed(_, _, _)
FindBoxed(s, box, i) ==
    IF i > Len(s) THEN <<>>
    ELSE IF s[i] = box /\ LineEnd(s, i + 1) > i + 1
         THEN <<SubSeq(s, i + 1, LineEnd(s, i + 1) - 1)>>
              \o FindBoxed(s, box, LineEnd(s, i + 1) + 1)
         ELSE FindBoxed(s, box, i + 1)

\* Sequence without its duplicates, each kept at its first place (the keys
\* of a Python dict in insertion order).
RECURSIVE Dedup(_)
Dedup(s) ==
    IF s = <<>> THEN <<>>
    ELSE LET r == Dedup(SubSeq(s, 1, Len(s) - 1))
             x == s[Len(s)]
         IN IF \E k \in 1..Len(r) : r[k] = x THEN r ELSE Append(r, x)

RECURSIVE Flatten(_)
Flatten(ss) == IF ss = <<>> THEN <<>> ELSE Head(ss) \o Flatten(Tail(ss))

Range(s) == {s[k] : k \in 1..Len(s)}

----------------------------------------------------------------------------
(* Progress Detector: scripts/auto-detect-progress.py                      *)

DProcs == {"D1", "D2"}

\* root_dir.glob('*-plan.md') followed by root_dir.glob('FEAT-*-plan.md'):
\* a FEAT plan file is listed twice.
plan_files == <<"a-plan.md", "FEAT-x-plan.md", "FEAT-x-plan.md">>

PlanNames == {"a-plan.md", "FEAT-x-plan.md"}

\* The (feature, path) pairs of detect_code_changes' patterns, in loop order.
patterns ==
    << <<"excel_export", "backend/routes/admin/leaveAdmin.js">>,
       <<"excel_export", "backend/services/LeaveExcelService.js">>,
       <<"excel_export", "frontend/src/components/UnifiedLeaveOverview.tsx">>,
       <<"virtual_scroll", "frontend/src/components/VirtualScrollList.tsx">>,
       <<"virtual_scroll", "frontend/package.json">>,
       <<"charts", "frontend/src/components/LeaveCharts.tsx">>,
       <<"charts", "frontend/package.json">> >>

Features == {"excel_export", "virtual_scroll", "charts"}

TrackedPaths == {patterns[k][2] : k \in 1..Len(patterns)}

test_result_files ==
    <<"frontend/coverage/coverage-summary.json",
      "backend/coverage/coverage-summary.json",
      "test-results.json">>

FilePatterns ==
    {"LeaveExcelService", "exportExcel", "VirtualScroll", "react-window",
     ".test.", ".spec."}

\* load_state's default, and the shape of .progress-state.json.  A path with
\* no entry in file_hashes maps to 0, last_check None is -1.
EmptyState ==
    [file_hashes |-> [f \in TrackedPaths |-> 0],
     last_check |-> -1,
     completed_tasks |-> <<>>]

load_state == IF stateFile.exists THEN stateFile.state ELSE EmptyState

\* The comparison without the test that an old hash is there.
RECURSIVE detect_from_no_old(_, _, _)
detect_from_no_old(k, fh, ch) ==
    IF k > Len(patterns) THEN [changes |-> ch, file_hashes |-> fh]
    ELSE LET feature == patterns[k][1]
             path == patterns[k][2]
             current_hash == trackedHash[path]
             old_hash == fh[path]
         IN IF current_hash = 0 THEN detect_from_no_old(k + 1, fh, ch)
            ELSE detect_from_no_old(k + 1, [fh EXCEPT ![path] = current_hash],
                     IF current_hash # old_hash
                     THEN [ch EXCEPT ![feature] = Append(@, path)]
                     ELSE ch)

\* detect_code_changes from the k-th (feature, path) pair on: fh is
\* current_state['file_hashes'], ch maps a feature to its changed paths
\* (a feature is a key of the dict iff its list is not empty).
RECURSIVE detect_from(_, _, _)
detect_from(k, fh, ch) ==
    IF k > Len(patterns) THEN [changes |-> ch, file_hashes |-> fh]
    ELSE LET feature == patterns[k][1]
             path == patterns[k][2]
             current_hash == trackedHash[path]
             old_hash == fh[path]
         IN IF current_hash = 0 THEN detect_from(k + 1, fh, ch)
            ELSE detect_from(k + 1, [fh EXCEPT ![path] = current_hash],
                     IF old_hash # 0 /\ current_hash # old_hash
                     THEN [ch EXCEPT ![feature] = Append(@, path)]
                     ELSE ch)

detect_code_changes(fh) == detect_from(1, fh, [f \in Features |-> <<>>])

check_test_results(last_check) ==
    SelectSeq(test_result_files,
              LAMBDA f : /\ testMtime[f] # -1
                         /\ (last_check = -1 \/ testMtime[f] > last_check))

HasWord(task, words) == \E k \in 1..Len(task) : task[k] \in words

\* The feature type analyze_plan_files gives a pending task, "" for none.
task_type(task) ==
    IF HasWord(task, {"Excel", "Long50", "Long30"}) THEN "excel_export"
    ELSE IF HasWord(task, {"scroll"}) THEN "virtual_scroll"
    ELSE IF HasWord(task, {"test"}) THEN "test"
    ELSE ""

task_files(type) ==
    CASE type = "excel_export" -> <<"LeaveExcelService", "exportExcel">>
      [] type = "virtual_scroll" -> <<"VirtualScroll", "react-window">>
      [] type = "test" -> <<".test.", ".spec.">>

\* One plan file's part of analyze_plan_files: the keys task_patterns has
\* after the pending tasks of content were added to the keys it had.
analyze_plan_file(keys, content) ==
    Dedup(keys \o SelectSeq(FindBoxed(content, "BOX", 1),
                            LAMBDA t : task_type(t) # ""))

\* detect_implementation: one item per task and file-name pattern for which
\* a matching file was modified in the last 24 hours.
RECURSIVE detect_implementation(_)
detect_implementation(keys) ==
    IF keys = <<>> THEN <<>>
    ELSE LET task == Head(keys)
             type == task_type(task)
             item(fp) == IF implRecent[fp] = "" THEN <<>>
                         ELSE <<[task |-> task, evidence |-> implRecent[fp],
                                 type |-> type]>>
         IN item(task_files(type)[1]) \o item(task_files(type)[2])
            \o detect_implementation(Tail(keys))

\* check_running_services: any exception leaves what was set before it.
check_running_services ==
    IF probe.ss = "raises" THEN {}
    ELSE (IF probe.port3727 THEN {"frontend"} ELSE {})
         \cup (IF probe.port5455 THEN {"backend"} ELSE {})
         \cup (IF probe.ps # "raises" /\ probe.dev THEN {"dev_mode"} ELSE {})

FileWeight == 40
ChangeWeight == 30
TestWeight == 20
ServiceWeight == 10
Threshold == 60

\* A slip in the weights: the test and the service weight taken for each other.
item_score_swapped(item, code_changes, test_results, services) ==
    (IF item.evidence # "" THEN FileWeight ELSE 0)
    + (IF item.type \in Features /\ code_changes[item.type] # <<>>
       THEN ChangeWeight ELSE 0)
    + (IF test_results # <<>> THEN ServiceWeight ELSE 0)
    + (IF "dev_mode" \in services THEN TestWeight ELSE 0)

\* The score infer_completions gives one detected item.
item_score(item, code_changes, test_results, services) ==
    LET s1 == IF item.evidence # "" THEN FileWeight ELSE 0
        s2 == IF item.type \in Features /\ code_changes[item.type] # <<>>
              THEN s1 + ChangeWeight ELSE s1
        s3 == IF test_results # <<>> THEN s2 + TestWeight ELSE s2
        s4 == IF "dev_mode" \in services THEN s3 + ServiceWeight ELSE s3
    IN s4

\* The completions and the per-item scores of infer_completions' loop.
RECURSIVE score_items(_, _, _, _)
score_items(detected, code_changes, test_results, services) ==
    IF detected = <<>> THEN [completions |-> <<>>, scores |-> <<>>]
    ELSE LET item == Head(detected)
             score == item_score(item, code_changes, test_results, services)
             rest == score_items(Tail(detected), code_changes, test_results,
                                 services)
         IN [completions |->
                 (IF score >= Threshold
                  THEN <<[task |-> item.task, confidence |-> score]>>
                  ELSE <<>>) \o rest.completions,
             scores |-> <<score>> \o rest.scores]

PrefixLen == 50

\* re.search(rf'- \[ \] ({re.escape(p)}.*?)(?:\n|$)', content)
search_pending(content, p) ==
    \E i \in 1..Len(content) :
        content[i] = "BOX" /\ StartsWithAt(content, i + 1, p)

\* The same substitution with count=1: only the first match is replaced.
RECURSIVE sub_pending_first(_, _, _)
sub_pending_first(content, p, i) ==
    IF i > Len(content) THEN <<>>
    ELSE IF content[i] = "BOX" /\ StartsWithAt(content, i + 1, p)
         THEN <<"XBOX">>
              \o SubSeq(content, i + 1, LineEnd(content, i + 1) - 1)
              \o <<"AUTO">>
              \o SubSeq(content, LineEnd(content, i + 1) + 1, Len(content))
         ELSE <<content[i]>> \o sub_pending_first(content, p, i + 1)

\* re.sub of that pattern by r'- [x] \1 ✅ (<today> 자동 감지)' from index i
\* on: the match runs to the end of the line and takes the line break with
\* it, the replacement holds none.
RECURSIVE sub_pending(_, _, _)
sub_pending(content, p, i) ==
    IF i > Len(content) THEN <<>>
    ELSE IF content[i] = "BOX" /\ StartsWithAt(content, i + 1, p)
         THEN <<"XBOX">>
              \o SubSeq(content, i + 1, LineEnd(content, i + 1) - 1)
              \o <<"AUTO">>
              \o sub_pending(content, p, LineEnd(content, i + 1) + 1)
         ELSE <<content[i]>> \o sub_pending(content, p, i + 1)

\* Number of unchecked boxes of content whose text starts with p.
CountPending(content, p) ==
    Cardinality({i \in 1..Len(content) :
                    content[i] = "BOX" /\ StartsWithAt(content, i + 1, p)})

\* __main__: auto_mode = '--auto' in sys.argv or 'auto' in sys.argv
auto_mode(argv) == "--auto" \in Range(argv) \/ "auto" \in Range(argv)

\* run without its test of auto_update.
calls_update_always(completions, auto_update) == completions # <<>>

\* run: is update_plan_files called.
calls_update(completions, auto_update) == completions # <<>> /\ auto_update

DIdle ==
    [pc |-> "off", argv |-> <<>>, auto_update |-> FALSE,
     current_state |-> EmptyState,
     code_changes |-> [f \in Features |-> <<>>], test_results |-> <<>>,
     keys |-> <<>>, fi |-> 1, detected |-> <<>>, services |-> {},
     scores |-> <<>>, completions |-> <<>>, ci |-> 1, content |-> <<>>,
     updates |-> <<>>]

\* AutoProgressDetector() and the flag of __main__.
D_init(p) ==
    /\ det[p].pc = "start"
    /\ det' = [det EXCEPT ![p].pc = "detect",
                          ![p].current_state = load_state,
                          ![p].auto_update = auto_mode(det[p].argv)]
    /\ UNCHANGED <<plans, todoExists, todo, trackedHash, testMtime,
                   implRecent, probe, now, stateFile, reportFile, syncLog,
                   syn, hist, dateFile, today, upd>>

\* infer_completions, steps 1 and 2.
D_detect(p) ==
    /\ det[p].pc = "detect"
    /\ LET r == detect_code_changes(det[p].current_state.file_hashes)
       IN det' = [det EXCEPT
                    ![p].pc = "analyze",
                    ![p].code_changes = r.changes,
                    ![p].current_state.file_hashes = r.file_hashes,
                    ![p].test_results =
                        check_test_results(det[p].current_state.last_check),
                    ![p].fi = 1,
                    ![p].keys = <<>>]
    /\ UNCHANGED <<plans, todoExists, todo, trackedHash, testMtime,
                   implRecent, probe, now, stateFile, reportFile, syncLog,
                   syn, hist, dateFile, today, upd>>

\* infer_completions, step 3: analyze_plan_files reads one plan file.
D_analyze(p) ==
    /\ det[p].pc = "analyze"
    /\ det' = [det EXCEPT
                 ![p].keys = analyze_plan_file(@, plans[plan_files[det[p].fi]]),
                 ![p].fi = IF @ = Len(plan_files) THEN 1 ELSE @ + 1,
                 ![p].pc = IF det[p].fi = Len(plan_files)
                           THEN "infer" ELSE "analyze"]
    /\ UNCHANGED <<plans, todoExists, todo, trackedHash, testMtime,
                   implRecent, probe, now, stateFile, reportFile, syncLog,
                   syn, hist, dateFile, today, upd>>

\* infer_completions, steps 4 and 5 and the scoring loop; then run's branch.
D_infer(p) ==
    /\ det[p].pc = "infer"
    /\ LET detected == detect_implementation(det[p].keys)
           services == check_running_services
           r == score_items(detected, det[p].code_changes,
                            det[p].test_results, services)
       IN det' = [det EXCEPT
                    ![p].detected = detected,
                    ![p].services = services,
                    ![p].scores = r.scores,
                    ![p].completions = r.completions,
                    ![p].ci = 1,
                    ![p].fi = 1,
                    ![p].pc = IF calls_update(r.completions, det[p].auto_update)
                              THEN "update_read" ELSE "save"]
    /\ UNCHANGED <<plans, todoExists, todo, trackedHash, testMtime,
                   implRecent, probe, now, stateFile, reportFile, syncLog,
                   syn, hist, dateFile, today, upd>>

\* update_plan_files: content = f.read() of the current plan file.
D_update_read(p) ==
    /\ det[p].pc = "update_read"
    /\ det' = [det EXCEPT ![p].content = plans[plan_files[det[p].fi]],
                          ![p].pc = "update_write"]
    /\ UNCHANGED <<plans, todoExists, todo, trackedHash, testMtime,
                   implRecent, probe, now, stateFile, reportFile, syncLog,
                   syn, hist, dateFile, today, upd>>

\* What update_plan_files writes for task into a plan file it read as content.
new_content(content, task) == sub_pending(content, Slice(task, PrefixLen), 1)

\* The write held back when the file is no longer what was read: the file
\* is read again instead.
D_update_write_checked(p) ==
    /\ det[p].pc = "update_write"
    /\ LET d == det[p]
           file == plan_files[d.fi]
           c == d.completions[d.ci]
           hit == search_pending(d.content, Slice(c.task, PrefixLen))
           lastFile == d.fi = Len(plan_files)
           lastTask == d.ci = Len(d.completions)
           stale == plans[file] # d.content
       IN /\ plans' = IF hit /\ ~stale
                      THEN [plans EXCEPT ![file] = new_content(d.content, c.task)]
                      ELSE plans
          /\ hist' = IF hit /\ ~stale
                     THEN [hist EXCEPT
                             !.writes = @ + 1,
                             !.last[file] = [by |-> p, read |-> d.content,
                                             task |-> c.task,
                                             over |-> plans[file]]]
                     ELSE hist
          /\ det' = IF stale
                    THEN [det EXCEPT ![p].pc = "update_read"]
                    ELSE [det EXCEPT
                            ![p].fi = IF lastFile THEN 1 ELSE @ + 1,
                            ![p].ci = IF lastFile /\ ~lastTask THEN @ + 1 ELSE @,
                            ![p].pc = IF lastFile /\ lastTask
                                      THEN "save" ELSE "update_read"]
    /\ UNCHANGED <<todoExists, todo, trackedHash, testMtime, implRecent,
                   probe, now, stateFile, reportFile, syncLog, syn, dateFile,
                   today, upd>>

\* update_plan_files: search, sub and write for the file just read, then the
\* next file or the next completion.
D_update_write(p) ==
    /\ det[p].pc = "update_write"
    /\ LET d == det[p]
           file == plan_files[d.fi]
           c == d.completions[d.ci]
           hit == search_pending(d.content, Slice(c.task, PrefixLen))
           lastFile == d.fi = Len(plan_files)
           lastTask == d.ci = Len(d.completions)
       IN /\ plans' = IF hit
                      THEN [plans EXCEPT ![file] = new_content(d.content, c.task)]
                      ELSE plans
          /\ hist' = IF hit
                     THEN [hist EXCEPT
                             !.writes = @ + 1,
                             !.last[file] = [by |-> p, read |-> d.content,
                                             task |-> c.task,
                                             over |-> plans[file]],
                             !.checked = @ \cup
                                 {[by |-> p, ci |-> d.ci, file |-> file,
                                   n |-> CountPending(d.content,
                                                      Slice(c.task, PrefixLen))
                                         - CountPending(
                                               new_content(d.content, c.task),
                                               Slice(c.task, PrefixLen))]}]
                     ELSE hist
          /\ det' = [det EXCEPT
                       ![p].updates =
                           IF hit THEN Append(@, [file |-> file, task |-> c.task,
                                                  confidence |-> c.confidence])
                           ELSE @,
                       ![p].fi = IF lastFile THEN 1 ELSE @ + 1,
                       ![p].ci = IF lastFile /\ ~lastTask THEN @ + 1 ELSE @,
                       ![p].pc = IF lastFile /\ lastTask
                                 THEN "save" ELSE "update_read"]
    /\ UNCHANGED <<todoExists, todo, trackedHash, testMtime, implRecent,
                   probe, now, stateFile, reportFile, syncLog, syn, dateFile,
                   today, upd>>

RECURSIVE tasks_of(_)
tasks_of(completions) ==
    IF completions = <<>> THEN <<>>
    ELSE <<Head(completions).task>> \o tasks_of(Tail(completions))

\* run: last_check, completed_tasks, save_state, and the report file.
D_save(p) ==
    /\ det[p].pc = "save"
    /\ LET st == [det[p].current_state EXCEPT
                    !.last_check = now,
                    !.completed_tasks = @ \o tasks_of(det[p].completions)]
       IN /\ det' = [det EXCEPT ![p].current_state = st, ![p].pc = "done"]
          /\ stateFile' = [exists |-> TRUE, state |-> st]
    /\ reportFile' = [exists |-> TRUE,
                      completions |-> Len(det[p].completions),
                      updates |-> Len(det[p].updates)]
    /\ UNCHANGED <<plans, todoExists, todo, trackedHash, testMtime,
                   implRecent, probe, now, syncLog, syn, hist, dateFile,
                   today, upd>>


MaxRuns == 3
MaxHash == 2

\* The script is started again, as a new process, once no run is going on.
D_start(p) ==
    /\ det[p].pc = "done"
    /\ \A q \in DProcs : det[q].pc \in {"off", "done"}
    /\ hist.runs < MaxRuns
    /\ det' = [det EXCEPT ![p] = [DIdle EXCEPT !.pc = "start",
                                                !.argv = det[p].argv]]
    /\ hist' = [hist EXCEPT !.runs = @ + 1, !.before = hist.modified,
                            !.modified = {}]
    /\ UNCHANGED <<plans, todoExists, todo, trackedHash, testMtime,
                   implRecent, probe, now, stateFile, reportFile, syncLog,
                   syn, dateFile, today, upd>>

\* Tracked files somebody edits, creates or deletes between the runs.
EditedPaths == {"backend/services/LeaveExcelService.js", "frontend/package.json"}

\* Between two runs a tracked file gets another content, appears (hash 0
\* is a file that does not exist) or is deleted.
EditFile ==
    /\ \A q \in DProcs : det[q].pc \in {"off", "done"}
    /\ hist.runs < MaxRuns
    /\ \E f \in EditedPaths, h \in 0..MaxHash :
          /\ h # trackedHash[f]
          /\ trackedHash' = [trackedHash EXCEPT ![f] = h]
          /\ hist' = [hist EXCEPT !.modified = @ \cup {f}]
    /\ UNCHANGED <<plans, todoExists, todo, testMtime, implRecent, probe, now,
                   stateFile, reportFile, syncLog, det, syn, dateFile, today,
                   upd>>
----------------------------------------------------------------------------
(* Progress Sync: scripts/sync-progress.py                                 *)

SProcs == {"S1", "S2"}

\* re.findall(r'- \[ \] (.+?)(?:🔄|진행중)', s) from index i on: at least one
\* character after the box, then the first in-progress mark on the line.
RECURSIVE FindInProgress(_, _)
FindInProgress(s, i) ==
    IF i > Len(s) THEN <<>>
    ELSE LET e == LineEnd(s, i + 1)
             marks == {j \in (i + 2)..(e - 1) : s[j] = "INPROG"}
             j == CHOOSE m \in marks : \A n \in marks : m <= n
         IN IF s[i] = "BOX" /\ marks # {}
            THEN <<SubSeq(s, i + 1, j - 1)>> \o FindInProgress(s, j + 1)
            ELSE FindInProgress(s, i + 1)

\* extract_progress: what one plan file adds to completed_tasks and
\* in_progress_tasks.
RECURSIVE completed_records(_, _)
completed_records(file, tasks) ==
    IF tasks = <<>> THEN <<>>
    ELSE <<[file |-> file, task |-> Head(tasks), date |-> "today"]>>
         \o completed_records(file, Tail(tasks))

RECURSIVE in_progress_records(_, _)
in_progress_records(file, tasks) ==
    IF tasks = <<>> THEN <<>>
    ELSE <<[file |-> file, task |-> Head(tasks)]>>
         \o in_progress_records(file, Tail(tasks))

MatchLen == 30

\* re.sub(rf'- \[ \] (.*{re.escape(p)}.*)', r'- [x] \1 ✅ (<date> 완료)', s)
\* from index i on: the match is the box and the rest of its line, the line
\* break stays.
RECURSIVE sub_todo(_, _, _)
sub_todo(s, p, i) ==
    IF i > Len(s) THEN <<>>
    ELSE LET e == LineEnd(s, i + 1)
         IN IF s[i] = "BOX" /\ Contains(s, i + 1, e - 1, p)
            THEN <<"XBOX">> \o SubSeq(s, i + 1, e - 1) \o <<"DONE">>
                 \o sub_todo(s, p, e)
            ELSE <<s[i]>> \o sub_todo(s, p, i + 1)

RECURSIVE update_progress_in_content(_, _)
update_progress_in_content(content, completed_tasks) ==
    IF completed_tasks = <<>> THEN content
    ELSE update_progress_in_content(
             sub_todo(content, Slice(Head(completed_tasks).task, MatchLen), 1),
             Tail(completed_tasks))

\* The same with the ratio cut off after one decimal instead of rounded.
calculate_progress_cut(nc, ni) ==
    IF nc + ni = 0 THEN 0 ELSE (1000 * nc) \div (nc + ni)

\* calculate_progress in tenths of a percent (75.0 is 750), from the two
\* list lengths: round(x, 1) of the double (nc / total) * 100 is the nearest
\* tenth, a tie going to the even one (the double arithmetic does not
\* disturb this for totals below 80).
calculate_progress(nc, ni) ==
    LET total_tasks == nc + ni
        q == (1000 * nc) \div total_tasks
        r == (1000 * nc) % total_tasks
    IN IF total_tasks = 0 THEN 0
       ELSE IF 2 * r < total_tasks THEN q
       ELSE IF 2 * r > total_tasks THEN q + 1
       ELSE IF q % 2 = 0 THEN q ELSE q + 1

RecentCount == 5

\* generate_summary: the numbers and the tasks the report lists.
generate_summary(completed_tasks, in_progress_tasks) ==
    [completed |-> Len(completed_tasks),
     in_progress |-> Len(in_progress_tasks),
     progress |-> calculate_progress(Len(completed_tasks),
                                     Len(in_progress_tasks)),
     recent |-> SubSeq(completed_tasks,
                       IF Len(completed_tasks) > RecentCount
                       THEN Len(completed_tasks) - RecentCount + 1 ELSE 1,
                       Len(completed_tasks))]

NoSummary == [completed |-> -1, in_progress |-> -1, progress |-> -1,
              recent |-> <<>>]

SIdle ==
    [pc |-> "off", completed_tasks |-> <<>>, in_progress_tasks |-> <<>>,
     fi |-> 1, content |-> <<>>, out |-> <<>>, summary |-> NoSummary]

\* The script is started again once the run before it has ended.
S_start(p) ==
    /\ syn[p].pc = "waiting"
    /\ \A q \in SProcs \ {p} : syn[q].pc = "done"
    /\ syn' = [syn EXCEPT ![p].pc = "scan"]
    /\ UNCHANGED <<plans, todoExists, todo, trackedHash, testMtime,
                   implRecent, probe, now, stateFile, reportFile, syncLog,
                   det, hist, dateFile, today, upd>>

\* scan_plan_files: extract_progress of one plan file.
S_scan(p) ==
    /\ syn[p].pc = "scan"
    /\ LET file == plan_files[syn[p].fi]
           content == plans[file]
       IN syn' = [syn EXCEPT
                    ![p].completed_tasks =
                        @ \o completed_records(file,
                                               FindBoxed(content, "XBOX", 1)),
                    ![p].in_progress_tasks =
                        @ \o in_progress_records(file,
                                                 FindInProgress(content, 1)),
                    ![p].fi = IF @ = Len(plan_files) THEN 1 ELSE @ + 1,
                    ![p].pc = IF syn[p].fi = Len(plan_files)
                              THEN "todo_read" ELSE "scan"]
    /\ UNCHANGED <<plans, todoExists, todo, trackedHash, testMtime,
                   implRecent, probe, now, stateFile, reportFile, syncLog,
                   det, hist, dateFile, today, upd>>

\* update_todo_file without its exists() test.
todo_found_always(exists) == TRUE

\* update_todo_file: does it go on to read and rewrite the todo file.
todo_found(exists) == exists

\* update_todo_file: the exists() test and content = f.read().
S_todo_read(p) ==
    /\ syn[p].pc = "todo_read"
    /\ syn' = IF todo_found(todoExists)
              THEN [syn EXCEPT ![p].content = todo, ![p].pc = "todo_write"]
              ELSE [syn EXCEPT ![p].out = Append(@, "todo file missing"),
                               ![p].pc = "summary"]
    /\ UNCHANGED <<plans, todoExists, todo, trackedHash, testMtime,
                   implRecent, probe, now, stateFile, reportFile, syncLog,
                   det, hist, dateFile, today, upd>>

\* What update_todo_file writes after it read the todo file as content.
updated_content(content, completed_tasks) ==
    update_progress_in_content(content, completed_tasks)

\* update_todo_file: update_progress_in_content and f.write(updated_content).
S_todo_write(p) ==
    /\ syn[p].pc = "todo_write"
    /\ todo' = updated_content(syn[p].content, syn[p].completed_tasks)
    /\ todoExists' = TRUE
    /\ hist' = [hist EXCEPT
                  !.writes = @ + 1,
                  !.last["todo-development.md"] =
                      [by |-> p, read |-> syn[p].content, task |-> <<>>,
                       over |-> todo]]
    /\ syn' = [syn EXCEPT ![p].out = Append(@, "todo file updated"),
                          ![p].pc = "summary"]
    /\ UNCHANGED <<plans, trackedHash, testMtime, implRecent, probe, now,
                   stateFile, reportFile, syncLog, det, dateFile, today, upd>>

\* run: generate_summary, print, and the write of .sync-log.txt.
S_summary(p) ==
    /\ syn[p].pc = "summary"
    /\ LET summary == generate_summary(syn[p].completed_tasks,
                                       syn[p].in_progress_tasks)
       IN /\ syn' = [syn EXCEPT ![p].summary = summary,
                                ![p].out = Append(@, "summary"),
                                ![p].pc = "done"]
          /\ syncLog' = [exists |-> TRUE, summary |-> summary]
    /\ hist' = [hist EXCEPT !.after[p] = todo]
    /\ UNCHANGED <<plans, todoExists, todo, trackedHash, testMtime,
                   implRecent, probe, now, stateFile, reportFile, det,
                   dateFile, today, upd>>

----------------------------------------------------------------------------
(* Date Updater: scripts/auto-date-updater.py                              *)
(*                                                                         *)
(* Tokens of a dated document: the labels "L1" **작성일**:  "L2" **작성 일자**: *)
(* "L3" **완료일**:  "L4" **수정일**:  "L5" **보류 일자**:  "L6" **취소 일자**:  *)
(* "H7" "### 오늘 ("  "L8" "Date:"; "DASH" "-", "RP" ")", "SP" " ", "NL";     *)
(* a date is the four digits of its year ("0".."9") and one token for the  *)
(* rest: "KR_OLD"/"KR_NEW" 년 mm월 dd일, "DOT_OLD"/"DOT_NEW" .mm.dd,          *)
(* "ISO_OLD"/"ISO_NEW" -mm-dd (NEW: today's month and day).                *)

Digits == {"0", "1", "2", "3", "4", "5", "6", "7", "8", "9"}
OctDigits == {"0", "1", "2", "3", "4", "5", "6", "7"}

DigitVal(c) ==
    CASE c = "0" -> 0 [] c = "1" -> 1 [] c = "2" -> 2 [] c = "3" -> 3
      [] c = "4" -> 4 [] c = "5" -> 5 [] c = "6" -> 6 [] c = "7" -> 7
      [] c = "8" -> 8 [] c = "9" -> 9

\* chr(n) for the codes an octal escape \12d or \13d can give.
Chr(n) ==
    CASE n = 80 -> "P" [] n = 81 -> "Q" [] n = 82 -> "R" [] n = 83 -> "S"
      [] n = 84 -> "T" [] n = 85 -> "U" [] n = 86 -> "V" [] n = 87 -> "W"
      [] OTHER -> "chr"

\* get_today_date('kr' | 'iso' | 'dot') as text.
get_today_date(format_type) ==
    today \o <<CASE format_type = "kr" -> "KR_NEW"
                 [] format_type = "iso" -> "ISO_NEW"
                 [] format_type = "dot" -> "DOT_NEW">>

\* The eight (pattern, replacement) pairs of update_markdown_date_fields.
\* A pattern: is it anchored by ^, the elements of group 1 ("WS*" is \s*),
\* the format of the date that is group 2, the elements of group 3.  A
\* replacement is written as the characters of the template string.
date_patterns ==
    << [anchor |-> FALSE, head |-> <<"L1", "WS*">>, fmt |-> "kr", tail |-> <<>>,
        repl |-> <<"\\", "1">> \o get_today_date("kr")],
       [anchor |-> FALSE, head |-> <<"L2", "WS*">>, fmt |-> "kr", tail |-> <<>>,
        repl |-> <<"\\", "1">> \o get_today_date("kr")],
       [anchor |-> TRUE, head |-> <<"DASH", "WS*", "L3", "WS*">>, fmt |-> "kr",
        tail |-> <<>>, repl |-> <<"\\", "1">> \o get_today_date("kr")],
       [anchor |-> FALSE, head |-> <<"L4", "WS*">>, fmt |-> "kr", tail |-> <<>>,
        repl |-> <<"\\", "1">> \o get_today_date("kr")],
       [anchor |-> FALSE, head |-> <<"L5", "WS*">>, fmt |-> "kr", tail |-> <<>>,
        repl |-> <<"\\", "1">> \o get_today_date("kr")],
       [anchor |-> FALSE, head |-> <<"L6", "WS*">>, fmt |-> "kr", tail |-> <<>>,
        repl |-> <<"\\", "1">> \o get_today_date("kr")],
       [anchor |-> FALSE, head |-> <<"H7">>, fmt |-> "dot", tail |-> <<"RP">>,
        repl |-> <<"\\", "1">> \o get_today_date("dot") \o <<"\\", "3">>],
       [anchor |-> FALSE, head |-> <<"L8", "WS*">>, fmt |-> "iso", tail |-> <<>>,
        repl |-> <<"\\", "1">> \o get_today_date("iso")] >>

DateRest(fmt) ==
    CASE fmt = "kr" -> {"KR_OLD", "KR_NEW"}
      [] fmt = "dot" -> {"DOT_OLD", "DOT_NEW"}
      [] fmt = "iso" -> {"ISO_OLD", "ISO_NEW"}

\* Does a date of format fmt start at index i of s.
IsDate(s, i, fmt) ==
    /\ i + 4 <= Len(s)
    /\ \A k \in 0..3 : s[i + k] \in Digits
    /\ s[i + 4] \in DateRest(fmt)

RECURSIVE SkipWs(_, _)
SkipWs(s, i) ==
    IF i <= Len(s) /\ s[i] \in {"SP", "NL"} THEN SkipWs(s, i + 1) ELSE i

\* Index after the match of the elements elems at index i of s, 0 for no
\* match (\s* is followed by something that is no white space, so the
\* greedy match is the only one).
RECURSIVE MatchElems(_, _, _)
MatchElems(s, i, elems) ==
    IF elems = <<>> THEN i
    ELSE IF Head(elems) = "WS*" THEN MatchElems(s, SkipWs(s, i), Tail(elems))
    ELSE IF i <= Len(s) /\ s[i] = Head(elems)
         THEN MatchElems(s, i + 1, Tail(elems))
         ELSE 0

\* The match of pattern pat at index i of s: where group 2 starts and where
\* the match ends, ok = FALSE for no match.
MatchAt(s, i, pat) ==
    LET d == MatchElems(s, i, pat.head)
        e == IF d # 0 /\ IsDate(s, d, pat.fmt)
             THEN MatchElems(s, d + 5, pat.tail) ELSE 0
    IN [ok |-> (pat.anchor => i = 1) /\ e # 0, date |-> d, end |-> e]

\* sre_parse.parse_template on the characters of a replacement: a sequence
\* of literals [lit |-> token] and group references [group |-> n], or
\* <<[error |-> TRUE]>> in it.  After a backslash and a digit c: a second
\* digit is taken with it; three octal digits are an octal escape; else the
\* one or two digits are a group number.
RECURSIVE parse_template(_)
parse_template(t) ==
    IF t = <<>> THEN <<>>
    ELSE IF Head(t) # "\\"
         THEN <<[kind |-> "lit", lit |-> Head(t), group |-> 0]>>
              \o parse_template(Tail(t))
    ELSE IF Len(t) >= 3 /\ t[3] \in Digits
         THEN IF /\ t[2] \in OctDigits /\ t[3] \in OctDigits
                 /\ Len(t) >= 4 /\ t[4] \in OctDigits
              THEN <<[kind |-> "lit",
                      lit |-> Chr(64 * DigitVal(t[2]) + 8 * DigitVal(t[3])
                                  + DigitVal(t[4])),
                      group |-> 0]>>
                   \o parse_template(SubSeq(t, 5, Len(t)))
              ELSE <<[kind |-> "group", lit |-> "",
                      group |-> 10 * DigitVal(t[2]) + DigitVal(t[3])]>>
                   \o parse_template(SubSeq(t, 4, Len(t)))
    ELSE <<[kind |-> "group", lit |-> "", group |-> DigitVal(t[2])]>>
         \o parse_template(SubSeq(t, 3, Len(t)))

\* A group reference beyond the pattern's groups: re.error.
Groups(pat) == IF pat.tail = <<>> THEN 2 ELSE 3

template_error(pat) ==
    \E k \in 1..Len(parse_template(pat.repl)) :
        /\ parse_template(pat.repl)[k].kind = "group"
        /\ parse_template(pat.repl)[k].group > Groups(pat)

\* The text a parsed template gives for one match with groups g.
RECURSIVE expand_template(_, _)
expand_template(items, g) ==
    IF items = <<>> THEN <<>>
    ELSE (IF Head(items).kind = "lit" THEN <<Head(items).lit>>
          ELSE g[Head(items).group])
         \o expand_template(Tail(items), g)

\* re.sub(pattern, replacement, s) from index i on.
RECURSIVE re_sub(_, _, _)
re_sub(s, pat, i) ==
    IF i > Len(s) THEN <<>>
    ELSE LET m == MatchAt(s, i, pat)
             g == <<SubSeq(s, i, m.date - 1),
                    SubSeq(s, m.date, m.date + 4),
                    SubSeq(s, m.date + 5, m.end - 1)>>
         IN IF m.ok
            THEN expand_template(parse_template(pat.repl), g)
                 \o re_sub(s, pat, m.end)
            ELSE <<s[i]>> \o re_sub(s, pat, i + 1)

\* The write done whether or not a pattern changed the text.
writes_file_always(updated) == TRUE

\* update_markdown_date_fields: is the file written at the end.
writes_file(updated) == updated

UIdle == [pc |-> "off", content |-> <<>>, updated |-> FALSE, k |-> 1,
          out |-> <<>>]

\* update_markdown_date_fields up to content = path.read_text().
U_read ==
    /\ upd.pc = "start"
    /\ upd' = IF dateFile.exists
              THEN [upd EXCEPT !.content = dateFile.content,
                               !.updated = FALSE, !.k = 1, !.pc = "patterns"]
              ELSE [upd EXCEPT !.out = Append(@, "file does not exist"),
                               !.pc = "done"]
    /\ UNCHANGED <<plans, todoExists, todo, trackedHash, testMtime,
                   implRecent, probe, now, stateFile, reportFile, syncLog,
                   det, syn, hist, dateFile, today>>

\* One turn of the loop over the patterns.
U_pattern ==
    /\ upd.pc = "patterns"
    /\ LET pat == date_patterns[upd.k]
           new == re_sub(upd.content, pat, 1)
       IN upd' = IF template_error(pat)
                 THEN [upd EXCEPT !.pc = "raised"]
                 ELSE [upd EXCEPT
                         !.content = new,
                         !.updated = @ \/ new # upd.content,
                         !.k = IF @ = Len(date_patterns) THEN @ ELSE @ + 1,
                         !.pc = IF upd.k = Len(date_patterns)
                                THEN "finish" ELSE "patterns"]
    /\ UNCHANGED <<plans, todoExists, todo, trackedHash, testMtime,
                   implRecent, probe, now, stateFile, reportFile, syncLog,
                   det, syn, hist, dateFile, today>>

\* The write and the message at the end.
U_finish ==
    /\ upd.pc = "finish"
    /\ dateFile' = IF writes_file(upd.updated)
                   THEN [dateFile EXCEPT !.content = upd.content,
                                         !.writes = @ + 1]
                   ELSE dateFile
    /\ upd' = [upd EXCEPT
                 !.out = Append(@, IF upd.updated THEN "date fields updated"
                                   ELSE "no date fields to update"),
                 !.pc = "done"]
    /\ UNCHANGED <<plans, todoExists, todo, trackedHash, testMtime,
                   implRecent, probe, now, stateFile, reportFile, syncLog,
                   det, syn, hist, today>>

----------------------------------------------------------------------------
(* Files and environments the runs start from                              *)

MaxLines == 2

\* The text of a file from its lines; the last line ends in "\n" iff eofNL.
RECURSIVE JoinLines(_, _)
JoinLines(lines, eofNL) ==
    IF lines = <<>> THEN <<>>
    ELSE IF Len(lines) = 1
         THEN Head(lines) \o (IF eofNL THEN <<"NL">> ELSE <<>>)
         ELSE Head(lines) \o <<"NL">> \o JoinLines(Tail(lines), eofNL)

LinesUpTo(n, L) == UNION {[1..k -> L] : k \in 0..n}

Texts(n, L) == {JoinLines(ls, e) : ls \in LinesUpTo(n, L), e \in BOOLEAN}

\* Lines of a plan file: pending tasks (two that share their first 50
\* characters, one that is the beginning of another), a pending task with no
\* keyword, and a line that is no checkbox.
DetLines ==
    { <<"BOX", "Excel">>, <<"BOX", "Excel", "misc">>,
      <<"BOX", "Long50", "a">>, <<"BOX", "Long50", "b">>,
      <<"BOX", "scroll">>, <<"misc">> }

\* Texts of the FEAT plan file in the detector runs.
FeatTexts ==
    { <<>>, <<"BOX", "Excel", "NL">>, <<"misc", "NL", "BOX", "Long50", "a">> }

\* Texts of a-plan.md in the scoring runs.
ScoreTexts ==
    { <<"BOX", "Excel", "NL">>, <<"BOX", "scroll", "NL", "BOX", "test", "NL">>,
      <<"BOX", "misc", "NL", "XBOX", "test", "AUTO", "NL">> }

Files == PlanNames \cup {"todo-development.md"}

Hist0(p0, t0) ==
    [plans0 |-> p0, todo0 |-> t0, writes |-> 0,
     last |-> [f \in Files |-> [by |-> "none", read |-> <<>>, task |-> <<>>,
                                over |-> <<>>]],
     checked |-> {}, after |-> [p \in SProcs |-> <<>>], date0 |-> <<>>,
     exists0 |-> todoExists, runs |-> 1, modified |-> {}, before |-> {}]

NoState == [exists |-> FALSE, state |-> EmptyState]

\* A state file left by an earlier run at time 1 that saw hash 1 everywhere.
OldState ==
    [exists |-> TRUE,
     state |-> [file_hashes |-> [f \in TrackedPaths |-> 1],
                last_check |-> 1, completed_tasks |-> <<>>]]

HashEnvs ==
    { [f \in TrackedPaths |-> 0], [f \in TrackedPaths |-> 1],
      [f \in TrackedPaths |->
          IF f = "backend/services/LeaveExcelService.js" THEN 2 ELSE 1],
      [f \in TrackedPaths |-> IF f = "frontend/package.json" THEN 2 ELSE 0] }

TestEnvs ==
    { [f \in Range(test_result_files) |-> -1],
      [f \in Range(test_result_files) |->
          IF f = "test-results.json" THEN 0 ELSE -1],
      [f \in Range(test_result_files) |->
          IF f = "test-results.json" THEN 2 ELSE -1] }

ImplEnvs ==
    { [f \in FilePatterns |-> ""],
      [f \in FilePatterns |->
          IF f = "LeaveExcelService" THEN "LeaveExcelService.js" ELSE ""],
      [f \in FilePatterns |->
          CASE f = "LeaveExcelService" -> "LeaveExcelService.js"
            [] f = "exportExcel" -> "exportExcel.ts"
            [] f = "VirtualScroll" -> "VirtualScrollList.tsx"
            [] f = ".test." -> "leave.test.js"
            [] OTHER -> ""] }

Probes ==
    { [ss |-> "raises", ps |-> "ok", port3727 |-> FALSE, port5455 |-> FALSE,
       dev |-> TRUE],
      [ss |-> "ok", ps |-> "raises", port3727 |-> TRUE, port5455 |-> FALSE,
       dev |-> TRUE],
      [ss |-> "ok", ps |-> "ok", port3727 |-> FALSE, port5455 |-> TRUE,
       dev |-> FALSE],
      [ss |-> "ok", ps |-> "ok", port3727 |-> TRUE, port5455 |-> TRUE,
       dev |-> TRUE] }

Argvs == {<<>>, <<"--auto">>, <<"auto">>, <<"--automatic">>}

NoDateFile == [exists |-> FALSE, content |-> <<>>, writes |-> 0]

NoLog == [exists |-> FALSE, summary |-> NoSummary]

NoReport == [exists |-> FALSE, completions |-> 0, updates |-> 0]

\* What a specification that does not run a script leaves fixed.
QuietDetector ==
    /\ trackedHash = [f \in TrackedPaths |-> 0]
    /\ testMtime = [f \in Range(test_result_files) |-> -1]
    /\ implRecent = [f \in FilePatterns |-> ""]
    /\ probe = CHOOSE pr \in Probes : pr.ss = "raises"
    /\ now = 3
    /\ stateFile = NoState
    /\ reportFile = NoReport
    /\ det = [p \in DProcs |-> DIdle]

QuietHist == hist = Hist0(plans, todo)

QuietSync ==
    /\ todoExists = FALSE
    /\ todo = <<>>
    /\ syncLog = NoLog
    /\ syn = [p \in SProcs |-> SIdle]

QuietDate ==
    /\ dateFile = NoDateFile
    /\ today = <<"2", "0", "2", "6">>
    /\ upd = UIdle

\* One detector run over every plan text, with weak and strong evidence.
InitDetector ==
    /\ \E a \in Texts(MaxLines, DetLines), f \in FeatTexts :
          plans = [n \in PlanNames |-> IF n = "a-plan.md" THEN a ELSE f]
    /\ trackedHash = [f \in TrackedPaths |-> 0]
    /\ testMtime \in {t \in TestEnvs : t["test-results.json"] # 0}
    /\ implRecent \in {e \in ImplEnvs : e["VirtualScroll"] # ""}
    /\ probe \in {pr \in Probes : pr.ss = "ok" /\ pr.ps = "ok" /\ pr.dev}
    /\ now = 3
    /\ stateFile = NoState
    /\ reportFile = NoReport
    /\ \E a \in Argvs :
          det = [p \in DProcs |->
                    IF p = "D1" THEN [DIdle EXCEPT !.pc = "start", !.argv = a]
                    ELSE DIdle]
    /\ QuietSync
    /\ QuietHist
    /\ QuietDate

\* One detector run in every environment, over a few plan texts.
InitScore ==
    /\ \E a \in ScoreTexts :
          plans = [n \in PlanNames |->
                      IF n = "a-plan.md" THEN a ELSE <<"BOX", "Excel", "NL">>]
    /\ trackedHash \in HashEnvs
    /\ testMtime \in TestEnvs
    /\ implRecent \in ImplEnvs
    /\ probe \in Probes
    /\ now = 3
    /\ stateFile \in {NoState, OldState}
    /\ reportFile = NoReport
    /\ \E a \in {<<>>, <<"--auto">>} :
          det = [p \in DProcs |->
                    IF p = "D1" THEN [DIdle EXCEPT !.pc = "start", !.argv = a]
                    ELSE DIdle]
    /\ QuietSync
    /\ QuietHist
    /\ QuietDate

\* Lines of a plan file for the sync runs: completed tasks (one longer than
\* 30 characters) and a task in progress.
SyncPlanLines ==
    { <<"XBOX", "Long30", "a">>, <<"XBOX", "misc">>,
      <<"BOX", "misc", "INPROG">> }

\* Lines of the todo file: unchecked entries, one with a second checkbox
\* further along the line, and a line that is no checkbox.
TodoLines ==
    { <<"BOX", "Long30", "b">>, <<"BOX", "misc">>,
      <<"BOX", "a", "BOX", "misc">>, <<"misc">> }

\* Two sync runs, one after the other, over every plan and todo text.
InitSync ==
    /\ \E ls \in LinesUpTo(MaxLines, SyncPlanLines),
          f \in {<<>>, <<"XBOX", "misc", "NL">>} :
          plans = [n \in PlanNames |->
                      IF n = "a-plan.md" THEN JoinLines(ls, TRUE) ELSE f]
    /\ todoExists \in BOOLEAN
    /\ todo \in (IF todoExists THEN Texts(MaxLines, TodoLines) ELSE {<<>>})
    /\ syncLog = NoLog
    /\ syn = [p \in SProcs |->
                 [SIdle EXCEPT !.pc = IF p = "S1" THEN "scan" ELSE "waiting"]]
    /\ QuietHist
    /\ QuietDetector
    /\ QuietDate

NextSync ==
    \E p \in SProcs :
        \/ S_start(p)
        \/ S_scan(p)
        \/ S_todo_read(p)
        \/ S_todo_write(p)
        \/ S_summary(p)

SpecSync == InitSync /\ [][NextSync]_vars

MaxCount == 10

\* A sync run that has scanned nc completed and ni in-progress tasks.
InitCalc ==
    /\ plans = [n \in PlanNames |-> <<>>]
    /\ todoExists = FALSE
    /\ todo = <<>>
    /\ syncLog = NoLog
    /\ \E nc, ni \in 0..MaxCount :
          syn = [p \in SProcs |->
                   IF p = "S1"
                   THEN [SIdle EXCEPT
                           !.pc = "summary",
                           !.out = <<"todo file missing">>,
                           !.completed_tasks =
                               [k \in 1..nc |->
                                   [file |-> "a-plan.md", task |-> <<"misc">>,
                                    date |-> "today"]],
                           !.in_progress_tasks =
                               [k \in 1..ni |->
                                   [file |-> "a-plan.md", task |-> <<"misc">>]]]
                   ELSE SIdle]
    /\ QuietHist
    /\ QuietDetector
    /\ QuietDate

NextCalc == \E p \in SProcs : S_summary(p)

SpecCalc == InitCalc /\ [][NextCalc]_vars

OldKr == <<"2", "0", "2", "5", "KR_OLD">>
OldDot == <<"2", "0", "2", "5", "DOT_OLD">>
OldIso == <<"2", "0", "2", "5", "ISO_OLD">>

\* Lines of a dated document: each of the eight fields with an old date, a
\* label with no date, a date with no label, a label with a date of another
\* format, and a line of plain text.
DateLines ==
    { <<"DASH", "SP", "L1", "SP">> \o OldKr, <<"L2", "SP">> \o OldKr,
      <<"DASH", "SP", "L3", "SP">> \o OldKr, <<"L4", "SP">> \o OldKr,
      <<"L5", "SP">> \o OldKr, <<"L6", "SP">> \o OldKr,
      <<"H7">> \o OldDot \o <<"RP">>, <<"L8", "SP">> \o OldIso,
      <<"L1", "SP", "misc">>, OldKr, <<"L8", "SP">> \o OldKr, <<"misc">> }

Years == {<<"2", "0", "2", "6">>, <<"2", "1", "0", "0">>}

\* One run of the date updater on every document, or on a missing file.
InitDate ==
    /\ dateFile \in
          {NoDateFile}
          \cup {[exists |-> TRUE, content |-> c, writes |-> 0] :
                   c \in Texts(MaxLines, DateLines)}
    /\ today \in Years
    /\ upd = [UIdle EXCEPT !.pc = "start"]
    /\ plans = [n \in PlanNames |-> <<>>]
    /\ QuietDetector
    /\ QuietSync
    /\ hist = [Hist0(plans, <<>>) EXCEPT !.date0 = dateFile.content]

NextDate == U_read \/ U_pattern \/ U_finish

SpecDate == InitDate /\ [][NextDate]_vars

\* Plan texts with two tasks the evidence completes.
RaceTexts ==
    { <<"BOX", "Long30", "NL", "BOX", "scroll", "NL">>,
      <<"BOX", "scroll", "NL", "misc", "NL", "BOX", "Long30">> }

\* Invocations running at the same time: two detectors, or a detector and
\* two sync runs, all started before any of them has ended.
InitRace ==
    /\ \E a \in RaceTexts :
          plans = [n \in PlanNames |-> IF n = "a-plan.md" THEN a ELSE <<>>]
    /\ trackedHash = [f \in TrackedPaths |-> 0]
    /\ testMtime \in {t \in TestEnvs : t["test-results.json"] = 2}
    /\ implRecent \in {e \in ImplEnvs : e[".test."] # ""}
    /\ probe \in {pr \in Probes : pr.port3727 /\ pr.port5455}
    /\ now = 3
    /\ stateFile = NoState
    /\ reportFile = NoReport
    /\ todoExists = TRUE
    /\ todo = <<"BOX", "Long30", "NL", "BOX", "scroll", "NL">>
    /\ syncLog = NoLog
    /\ \E mixed \in BOOLEAN :
          /\ det = [p \in DProcs |->
                       IF p = "D1" \/ ~mixed
                       THEN [DIdle EXCEPT !.pc = "start", !.argv = <<"--auto">>]
                       ELSE DIdle]
          /\ syn = [p \in SProcs |->
                       IF mixed THEN [SIdle EXCEPT !.pc = "scan"] ELSE SIdle]
    /\ QuietHist
    /\ QuietDate

NextDetector ==
    \E p \in DProcs :
        \/ D_init(p)
        \/ D_detect(p)
        \/ D_analyze(p)
        \/ D_infer(p)
        \/ D_update_read(p)
        \/ D_update_write(p)
        \/ D_save(p)

SpecDetector == InitDetector /\ [][NextDetector]_vars

SpecScore == InitScore /\ [][NextDetector]_vars

\* Detector runs one after the other, from the first run ever, with
\* tracked files edited between them.
InitHash ==
    /\ plans = [n \in PlanNames |->
                   IF n = "a-plan.md" THEN <<"BOX", "Excel", "NL">> ELSE <<>>]
    /\ trackedHash \in HashEnvs
    /\ testMtime = [f \in Range(test_result_files) |-> -1]
    /\ implRecent \in {e \in ImplEnvs : e["LeaveExcelService"] # ""}
    /\ probe = CHOOSE pr \in Probes : pr.ss = "raises"
    /\ now = 3
    /\ stateFile = NoState
    /\ reportFile = NoReport
    /\ \E a \in {<<>>, <<"--auto">>} :
          det = [p \in DProcs |->
                    IF p = "D1" THEN [DIdle EXCEPT !.pc = "start", !.argv = a]
                    ELSE DIdle]
    /\ QuietSync
    /\ QuietHist
    /\ QuietDate

NextHash ==
    \/ NextDetector
    \/ \E p \in DProcs : D_start(p)
    \/ EditFile

SpecHash == InitHash /\ [][NextHash]_vars

NextRace ==
    \/ NextDetector
    \/ \E p \in SProcs :
          \/ S_scan(p)
          \/ S_todo_read(p)
          \/ S_todo_write(p)
          \/ S_summary(p)

SpecRace == InitRace /\ [][NextRace]_vars

----------------------------------------------------------------------------
(* Properties of the Progress Detector                                     *)

\* The lines of a text (the pieces between its line breaks).
RECURSIVE Lines(_)
Lines(s) ==
    IF LineEnd(s, 1) > Len(s) THEN <<s>>
    ELSE <<SubSeq(s, 1, LineEnd(s, 1) - 1)>>
         \o Lines(SubSeq(s, LineEnd(s, 1) + 1, Len(s)))

\* The sum of the weights of the signals present for a detected item.
WeightSum(d, item) ==
    (IF item.evidence # "" THEN 40 ELSE 0)
    + (IF item.type \in Features /\ d.code_changes[item.type] # <<>>
       THEN 30 ELSE 0)
    + (IF d.test_results # <<>> THEN 20 ELSE 0)
    + (IF "dev_mode" \in d.services THEN 10 ELSE 0)

Inferred(d) == d.pc \in {"update_read", "update_write", "save", "done"}

\* C1: once infer_completions has run, the score of every detected item is
\* the sum of the weights 40, 30, 20, 10 of the signals present for it, and
\* the completions are exactly the items whose sum is at least 60, each with
\* that sum as its confidence.
C1_ScoreIsWeightSum ==
    \A p \in DProcs :
        LET d == det[p]
            hits == {k \in 1..Len(d.detected) :
                        WeightSum(d, d.detected[k]) >= 60}
        IN Inferred(d) =>
             /\ Len(d.scores) = Len(d.detected)
             /\ \A k \in 1..Len(d.detected) :
                    d.scores[k] = WeightSum(d, d.detected[k])
             /\ Len(d.completions) = Cardinality(hits)
             /\ \A k \in hits : \E j \in 1..Len(d.completions) :
                    d.completions[j] =
                        [task |-> d.detected[k].task,
                         confidence |-> WeightSum(d, d.detected[k])]
             /\ \A j \in 1..Len(d.completions) : \E k \in hits :
                    d.completions[j].task = d.detected[k].task

\* A run in which one item has a changed feature and scores 70 and another
\* has file evidence alone and scores 40.
C1_Witness ==
    \E p \in DProcs :
        /\ det[p].pc = "done"
        /\ \E k1, k2 \in 1..Len(det[p].scores) :
              /\ det[p].scores[k1] = 70
              /\ det[p].scores[k2] = 40
              /\ det[p].code_changes[det[p].detected[k1].type] # <<>>
        /\ Len(det[p].completions) >= 1

\* The unchecked boxes of a text whose line starts with p: their indices.
PendingAt(content, p) ==
    {i \in 1..Len(content) :
        content[i] = "BOX" /\ StartsWithAt(content, i + 1, p)}

\* C2 as stated: a completion rewrites one line only, so no write of
\* update_plan_files checks two boxes and no completion writes two files.
C2_OnlyFirstRewritten ==
    \A r1, r2 \in hist.checked :
        /\ r1.n <= 1
        /\ (r1.by = r2.by /\ r1.ci = r2.ci) => r1.file = r2.file

\* C2 amended: after a run with the flag, no plan file holds an unchecked
\* box whose text starts with the first 50 characters of a completed task,
\* and every line that did is there as '- [x] <its text> ✅ (<today> 자동 감지)'.
C2_EveryMatchRewritten ==
    \A p \in DProcs :
        (det[p].pc = "done" /\ det[p].auto_update) =>
            \A j \in 1..Len(det[p].completions), f \in PlanNames :
                LET pre == Slice(det[p].completions[j].task, 50)
                    old == hist.plans0[f]
                IN /\ PendingAt(plans[f], pre) = {}
                   /\ \A i \in PendingAt(old, pre) :
                          Contains(plans[f], 1, Len(plans[f]),
                                   <<"XBOX">>
                                   \o SubSeq(old, i + 1, LineEnd(old, i + 1) - 1)
                                   \o <<"AUTO">>)

\* A finished run with the flag in which one completion found two unchecked
\* lines in one plan file and one more in the other.
C2_Witness ==
    \E p \in DProcs :
        /\ det[p].pc = "done"
        /\ det[p].auto_update
        /\ \E j \in 1..Len(det[p].completions) :
              LET pre == Slice(det[p].completions[j].task, 50)
              IN /\ Len(det[p].completions[j].task) > Len(pre)
                 /\ Cardinality(PendingAt(hist.plans0["a-plan.md"], pre)) = 2
                 /\ PendingAt(hist.plans0["FEAT-x-plan.md"], pre) # {}

\* Is line l an unchecked box whose text starts with the first 50
\* characters of a completion of d.
Completed(d, l) ==
    \E j \in 1..Len(d.completions) :
        /\ l # <<>>
        /\ l[1] = "BOX"
        /\ StartsWithAt(l, 2, Slice(d.completions[j].task, 50))

\* C3 as stated: after the rewrite every line of a plan file that is no
\* match of a completion is still a line of that file, with the text it had.
C3_OtherLinesUntouched ==
    \A p \in DProcs :
        (det[p].pc = "done" /\ det[p].auto_update) =>
            \A f \in PlanNames :
                LET old == Lines(hist.plans0[f])
                    new == Lines(plans[f])
                IN \A k \in 1..Len(old) :
                       (old[k] # <<>> /\ ~Completed(det[p], old[k])) =>
                           \E m \in 1..Len(new) : new[m] = old[k]

HasFlag(argv) == \E k \in 1..Len(argv) : argv[k] \in {"--auto", "auto"}

\* C7: a run without --auto/auto never enters update_plan_files and leaves
\* every plan file as it was; a plan file differs only after a run with the
\* flag that detected a completion.
C7_DryRunWritesNothing ==
    \A p \in DProcs :
        det[p].pc # "off" =>
            /\ ~HasFlag(det[p].argv) =>
                  /\ det[p].pc \notin {"update_read", "update_write"}
                  /\ det[p].updates = <<>>
                  /\ hist.writes = 0
                  /\ plans = hist.plans0
            /\ plans # hist.plans0 =>
                  HasFlag(det[p].argv) /\ det[p].completions # <<>>

\* A finished run without the flag that detected a completion whose line is
\* still unchecked in a plan file.
C7_Witness ==
    \E p \in DProcs :
        /\ det[p].pc = "done"
        /\ ~HasFlag(det[p].argv)
        /\ \E j \in 1..Len(det[p].completions), f \in PlanNames :
              PendingAt(plans[f], Slice(det[p].completions[j].task, 50)) # {}


----------------------------------------------------------------------------
(* Progress Sync                                                           *)

BothRunsDone == \A p \in SProcs : syn[p].pc = "done"

\* C4: after two sync runs in a row over unchanged plan files the todo file
\* is the one the first run left, and both runs counted as many completed
\* tasks.
C4_SecondRunChangesNothing ==
    BothRunsDone =>
        /\ todo = hist.after["S1"]
        /\ Len(syn["S2"].completed_tasks) = Len(syn["S1"].completed_tasks)

\* The completed and in-progress lines of the plan files, each file counted
\* as often as the scan lists it.
DoneLines(c) ==
    {i \in 1..Len(c) : c[i] = "XBOX" /\ i < Len(c) /\ c[i + 1] # "NL"}

InProgressLines(c) ==
    {i \in 1..Len(c) :
        /\ c[i] = "BOX"
        /\ \E j \in (i + 2)..(LineEnd(c, i + 1) - 1) : c[j] = "INPROG"}

RECURSIVE ScannedDone(_)
ScannedDone(k) ==
    IF k = 0 THEN 0
    ELSE Cardinality(DoneLines(plans[plan_files[k]])) + ScannedDone(k - 1)

RECURSIVE ScannedInProgress(_)
ScannedInProgress(k) ==
    IF k = 0 THEN 0
    ELSE Cardinality(InProgressLines(plans[plan_files[k]]))
         + ScannedInProgress(k - 1)

\* C10: with no todo file a sync run reports the missing file, never gets
\* to the rewrite, creates and writes no todo file, and ends with the summary
\* of the scanned plan files written to the sync log.
C10_MissingTodoIsSkipped ==
    ~hist.exists0 =>
        /\ ~todoExists /\ todo = <<>> /\ hist.writes = 0
        /\ \A p \in SProcs :
              /\ syn[p].pc # "todo_write"
              /\ syn[p].pc \in {"summary", "done"} =>
                    /\ "todo file missing" \in Range(syn[p].out)
                    /\ "todo file updated" \notin Range(syn[p].out)
              /\ syn[p].pc = "done" =>
                    /\ syncLog = [exists |-> TRUE, summary |-> syn[p].summary]
                    /\ syn[p].summary.completed
                          = ScannedDone(Len(plan_files))
                    /\ syn[p].summary.in_progress
                          = ScannedInProgress(Len(plan_files))

C10_Witness ==
    /\ ~hist.exists0
    /\ syn["S1"].pc = "done"
    /\ "todo file missing" \in Range(syn["S1"].out)
    /\ syncLog.exists
    /\ syncLog.summary.completed > 0
    /\ ~todoExists

Abs(x) == IF x < 0 THEN -x ELSE x

\* C8: the progress of a summary, in tenths of a percent, is 0 with no
\* tasks and otherwise the tenth nearest to completed / total x 100; it is
\* 75.0 for 3 completed and 1 in progress, and lies between 0 and 100.
C8_ProgressIsRoundedRatio ==
    \A p \in SProcs :
        syn[p].pc = "done" =>
            LET nc == Len(syn[p].completed_tasks)
                ni == Len(syn[p].in_progress_tasks)
                x == syn[p].summary.progress
            IN /\ nc + ni = 0 => x = 0
               /\ nc + ni > 0 => 2 * Abs(x * (nc + ni) - 1000 * nc) <= nc + ni
               /\ (nc = 3 /\ ni = 1) => x = 750
               /\ 0 <= x /\ x <= 1000

C8_Witness ==
    /\ syn["S1"].pc = "done"
    /\ Len(syn["S1"].completed_tasks) = 2
    /\ Len(syn["S1"].in_progress_tasks) = 1
    /\ syn["S1"].summary.progress = 667
    /\ syncLog.summary.progress = 667

----------------------------------------------------------------------------
(* Date Updater                                                            *)

\* Field k (its label, a date of its format, its closing text) at index i.
FieldAt(s, i, k) == MatchAt(s, i, [date_patterns[k] EXCEPT !.anchor = FALSE])

\* The text s from index i on with the date of every field replaced by
\* today's date in the format of the field, and nothing else changed.
RECURSIVE Stamped(_, _)
Stamped(s, i) ==
    IF i > Len(s) THEN <<>>
    ELSE LET K == {k \in DOMAIN date_patterns : FieldAt(s, i, k).ok}
             k == CHOOSE k \in K : TRUE
             m == FieldAt(s, i, k)
         IN IF K = {} THEN <<s[i]>> \o Stamped(s, i + 1)
            ELSE SubSeq(s, i, m.date - 1)
                 \o get_today_date(date_patterns[k].fmt)
                 \o SubSeq(s, m.date + 5, m.end - 1)
                 \o Stamped(s, m.end)

\* C5: after the update every label that was followed by an old date is
\* followed by today's date in the format of its pattern, and all text
\* outside the dates is what it was.
C5_DateFieldsUpdated ==
    (upd.pc = "done" /\ dateFile.exists) =>
        dateFile.content = Stamped(hist.date0, 1)

\* No one of the eight patterns matches anywhere in s.
NoMatch(s) ==
    \A k \in DOMAIN date_patterns, i \in 1..Len(s) :
        ~MatchAt(s, i, date_patterns[k]).ok

\* C6: the update of an existing file in which no pattern matches does not
\* write the file, leaves its content as it was, and reports that there
\* are no date fields to update.
C6_NoMatchNoWrite ==
    (upd.pc = "done" /\ dateFile.exists /\ NoMatch(hist.date0)) =>
        /\ dateFile.content = hist.date0
        /\ dateFile.writes = 0
        /\ upd.out = <<"no date fields to update">>

C6_Witness ==
    /\ upd.pc = "done"
    /\ dateFile.exists
    /\ NoMatch(hist.date0)
    /\ \E i \in 1..Len(hist.date0) : hist.date0[i] = "L1"
    /\ \E i \in 1..Len(hist.date0) : IsDate(hist.date0, i, "kr")
    /\ upd.out = <<"no date fields to update">>

----------------------------------------------------------------------------
(* Invocations at the same time                                            *)

\* A write of a plan file by detector p: the whole file, as p computed it
\* from what p read, whatever the file holds by now.
DetectorWritesOwn(p) ==
    LET d == det[p]
        file == plan_files[d.fi]
        prefix == Slice(d.completions[d.ci].task, PrefixLen)
    IN (d.pc = "update_write" /\ det'[p] # d /\ search_pending(d.content, prefix))
       => plans' = [plans EXCEPT ![file] = sub_pending(d.content, prefix, 1)]

\* A write of the todo file by sync run p, likewise.
SyncWritesOwn(p) ==
    (syn[p].pc = "todo_write" /\ syn'[p] # syn[p])
    => todo' = update_progress_in_content(syn[p].content,
                                          syn[p].completed_tasks)

\* Every plan file and the todo file hold what their last writer computed
\* from its own read.
LastWriterWins ==
    /\ \A f \in PlanNames :
          hist.last[f].by # "none" =>
              plans[f] = sub_pending(hist.last[f].read,
                                     Slice(hist.last[f].task, PrefixLen), 1)
    /\ LET w == hist.last["todo-development.md"]
       IN w.by # "none" =>
              todo = update_progress_in_content(w.read,
                                                syn[w.by].completed_tasks)

\* C9: there is no lock and no conflict detection: each write puts the whole
\* file as the writer computed it from its own earlier read, so a file
\* always holds what its last writer computed from its own read.
C9_LastWriterWins ==
    [][/\ \A p \in DProcs : DetectorWritesOwn(p)
       /\ \A p \in SProcs : SyncWritesOwn(p)
       /\ LastWriterWins']_vars

Unchecked(s) == Cardinality({i \in 1..Len(s) : s[i] = "BOX"})

\* A file whose last writer overwrote what another invocation had written
\* since the writer's read, and a checkbox that was checked is unchecked.
C9_Witness ==
    \E f \in Files :
        LET w == hist.last[f]
            now_is == IF f \in PlanNames THEN plans[f] ELSE todo
        IN /\ w.by # "none"
           /\ w.over # w.read
           /\ Unchecked(w.over) < Unchecked(w.read)
           /\ Unchecked(now_is) > Unchecked(w.over)

----------------------------------------------------------------------------
(* Hashes of the tracked files over the runs                               *)

\* Run p has compared the hashes and not yet saved its state.
Compared(p) ==
    det[p].pc \in {"analyze", "infer", "update_read", "update_write", "save"}

\* detect_code_changes of run p lists path f under some feature.
Reported(p, f) == \E ft \in Features : f \in Range(det[p].code_changes[ft])

\* The hash the state file holds for path f, 0 for none.
Persisted(f) == IF stateFile.exists THEN stateFile.state.file_hashes[f] ELSE 0

NoRunGoing == \A q \in DProcs : det[q].pc \in {"off", "done"}

\* C11: a run reports a tracked file as changed iff the file exists, an
\* earlier run stored a hash for it and its hash now is another one; the
\* first run ever and a run after which no tracked file was edited report
\* no change; after a run the state file holds the current hash of every
\* tracked file that exists.
C11_ChangedIffHashDiffers ==
    /\ \A p \in DProcs :
          Compared(p) =>
              /\ \A f \in TrackedPaths :
                    Reported(p, f) <=> /\ trackedHash[f] # 0
                                       /\ Persisted(f) # 0
                                       /\ trackedHash[f] # Persisted(f)
              /\ hist.runs = 1 => \A f \in TrackedPaths : ~Reported(p, f)
              /\ (hist.runs > 1 /\ hist.before = {}) =>
                    \A f \in TrackedPaths : ~Reported(p, f)
    /\ (NoRunGoing /\ hist.modified = {}) =>
          /\ stateFile.exists
          /\ \A f \in TrackedPaths :
                trackedHash[f] # 0 => Persisted(f) = trackedHash[f]

C11_Witness ==
    /\ hist.runs = 3
    /\ hist.before = {"frontend/package.json"}
    /\ det["D1"].pc = "done"
    /\ Reported("D1", "frontend/package.json")
    /\ ~Reported("D1", "backend/services/LeaveExcelService.js")
    /\ hist.modified = {}
    /\ Persisted("frontend/package.json") = trackedHash["frontend/package.json"]

============================================================================
